---- MODULE Spec2Model ----
(***************************************************************************)
(* The research agent of src/src/agent.py (run_graph_and_structure_output, *)
(* the llm / call_tool graph and the StreamingCallbackHandler) running as  *)
(* the background task of the streaming endpoint of src/backend/app.py     *)
(* (event_generator), the two joined by one asyncio.Queue.                 *)
(*                                                                         *)
(* The language model, the tools and the HTTP client are the environment:  *)
(* what the model answers, how many tokens it streams, whether a call      *)
(* raises and when the client goes away are chosen nondeterministically.   *)
(***************************************************************************)
EXTENDS Integers, Sequences, FiniteSets, TLC

(* ------------------------------ bounds -------------------------------- *)

\* Supersteps (node executions) the graph may run before astream raises
\* GraphRecursionError.  agent.py:192 passes no "recursion_limit", so the
\* library default applies; the model uses a small value.
RecursionLimit == 3

\* Tool-call requests one model response may carry, and the tool calls of
\* one run that may be spent on responses carrying several: once they are
\* used up the model still requests tools, one call per response.
MaxCalls == 2

\* Tokens one model response may stream.
MaxTokens == 2

\* Lines one search backend reply may have.
MaxLines == 2

\* Texts one note_taker_tool call may be given, and characters of a text.
MaxTexts == 2
MaxTextLen == 2

\* Streaming requests the server runs at the same time, and reasoning
\* steps each of their runs takes.
MaxRequests == 2
MaxRunSteps == 3

\* Guard on the superstep counter that keeps the state space finite should
\* the recursion limit not stop the loop; it lies beyond RecursionLimit and
\* is never reached (see StepsWithinLimit).
StepCap == RecursionLimit + 2

(* ----------------------------- vocabulary ----------------------------- *)

\* tools = [_web_search_tool, _pdf_reader_tool, _note_taker_tool]
Tools == {"web_search", "pdf_reader", "note_taker"}

\* Names the model puts in a tool-call request here: a registered one and
\* one that no tool carries.
ToolNames == {"web_search", "bogus"}

\* The i-th token of a streamed response: the model decides how many tokens
\* a response has; neighbouring tokens differ, so their order shows.
TokenAt(i) == IF i % 2 = 1 THEN "a" ELSE "b"

Terminal == {"done", "failed", "cancelled"}

AgentPcs == {"llm", "llm_running", "call_tool", "tools_running",
             "structuring"} \cup Terminal

ConsumerPcs == {"check", "get", "finally", "await_task", "returned", "raised"}

\* The tool-call lists a response may carry: <<>> is a final answer.
CallNameSeqs == UNION {[1..n -> ToolNames] : n \in 0..MaxCalls}

VARIABLES
    agentpc,          \* where the background task is
    error,            \* the exception the task ended with, "none" otherwise
    messages,         \* AgentState["messages"]
    steps,            \* supersteps the graph has run
    llm_token_buffer, \* StreamingCallbackHandler.llm_token_buffer
    toolrun,          \* call_tool node: state of each requested call
    queue,            \* the asyncio.Queue of event_generator
    published,        \* history: every event put on the queue, in order
    yielded,          \* history: every event event_generator yielded
    cpc,              \* where event_generator is
    disconnected,     \* request.is_disconnected()
    cancel_requested, \* task.cancel() was called on a running task
    topic,            \* AgentState["topic"]
    sources,          \* AgentState["sources"]
    metadata,         \* AgentState["metadata"]
    structuring_attempts, \* history: times the structuring step was started
    call,             \* a direct call of a tool function or constructor
    result,           \* what that call gave its caller
    qheap,            \* the asyncio.Queue objects created so far
    sheap,            \* the message lists (AgentState) created so far
    consumer_queue,   \* per request: the queue its event_generator reads
    handler_queue,    \* per request: the queue its callback handler holds
    state_ref,        \* per request: the message list its graph writes
    delivered         \* per request: the events its generator yielded

\* The keys of AgentState other than messages.
stateVars == <<topic, sources, metadata>>

runVars == <<agentpc, error, messages, steps, llm_token_buffer, toolrun,
             queue, published, yielded, cpc, disconnected, cancel_requested,
             stateVars, structuring_attempts>>

callVars == <<call, result>>

serverVars == <<qheap, sheap, consumer_queue, handler_queue, state_ref,
                delivered>>

vars == <<runVars, callVars, serverVars>>

agentVars == <<agentpc, error, messages, steps, llm_token_buffer, toolrun,
               stateVars, structuring_attempts>>
consumerVars == <<yielded, cpc>>

(* ------------------------------ helpers ------------------------------- *)

\* "".join(self.llm_token_buffer)
RECURSIVE Join(_)
Join(buf) == IF buf = <<>> THEN "" ELSE Head(buf) \o Join(Tail(buf))

\* The identifier of the i-th call of the message at position m.
CallId(m, i) == m * (MaxCalls + 1) + i

HumanMessage(content) ==
    [role |-> "human", content |-> content, tool_calls |-> <<>>,
     tool_call_id |-> 0]

AIMessage(content, names, m) ==
    [role |-> "ai", content |-> content,
     tool_calls |-> [i \in 1..Len(names) |->
                        [name |-> names[i], id |-> CallId(m, i)]],
     tool_call_id |-> 0]

ToolMessage(content, id) ==
    [role |-> "tool", content |-> content, tool_calls |-> <<>>,
     tool_call_id |-> id]

\* event_data = {"type": event_type, **data}
Event(type, data) == [type |-> type, data |-> data]

\* _put_event mutated: the event goes to the front of the queue.
PutEventFront(q, type, data) == <<Event(type, data)>> \o q

\* StreamingCallbackHandler._put_event: await self.queue.put(event_data)
PutEvent(q, type, data) == Append(q, Event(type, data))

\* Tool calls requested by the responses so far.
RECURSIVE CallsRequested(_)
CallsRequested(msgs) ==
    IF msgs = <<>> THEN 0
    ELSE Len(Head(msgs).tool_calls) + CallsRequested(Tail(msgs))

\* Tool calls the next response may carry (see MaxCalls).
CallsAllowed(msgs) ==
    IF MaxCalls - CallsRequested(msgs) > 1
    THEN MaxCalls - CallsRequested(msgs)
    ELSE 1

\* should_continue
\* Node mutated: the reasoning node also returns a sources list.
call_llm_keys_with_sources == {"messages", "sources"}

\* return {"messages": [response]}: the keys of the state the reasoning
\* node returns.
call_llm_keys == {"messages"}

\* The tool node returns {"messages": [...]}.
tool_node_keys == {"messages"}

\* A key of the state a node returns is written with the returned value;
\* a key it does not return keeps its value.
Written(keys, key, old, new) == IF key \in keys THEN new ELSE old

\* The effect of a node's return value on the keys other than messages.
NodeWrites(keys) ==
    /\ topic' = Written(keys, "topic", topic, "")
    /\ sources' = Written(keys, "sources", sources, <<"source">>)
    /\ metadata' = Written(keys, "metadata", metadata,
                           [search_queries_used |-> <<>>,
                            total_sources_analyzed |-> 1])

\* Flush mutated: only the token received last is published.
full_response_last_token(buf) == buf[Len(buf)]

\* full_response = "".join(self.llm_token_buffer)
full_response(buf) == Join(buf)

\* Routing mutated: the tool node follows every response.
should_continue_to_tool(msgs) == "call_tool"

\* Reducer mutated: a node's messages replace the list, as they would
\* for a key without the operator.add annotation.
overwrite(old, new) == new

\* messages: Annotated[List[BaseMessage], operator.add]: what a node
\* returns under "messages" is concatenated to the list.
operator_add(old, new) == old \o new

should_continue(msgs) ==
    LET last_message == msgs[Len(msgs)]
    IN  IF last_message.role = "ai" /\ last_message.tool_calls # <<>>
        THEN "call_tool"
        ELSE "end"

\* The recursion limit mutated: never reached.
RecursionNeverExceeded(s) == FALSE

\* astream stops with GraphRecursionError when the next superstep would
\* exceed the recursion limit.
RecursionExceeded(s) == s >= RecursionLimit

\* "await task" mutated: does not wait for the task.
TaskDoneNoWait(pc) == TRUE

\* "await task" resumes once the task is finished.
TaskDone(pc) == pc \in Terminal

\* Queue mutated: a queue that holds one event, so that put waits for the
\* consumer.
QueueHoldsOne(q) == Len(q) < 1

\* asyncio.Queue() is built without a maxsize: put never waits for room.
QueueHasRoom(q) == TRUE

Publish(type, data) ==
    /\ QueueHasRoom(queue)
    /\ queue' = PutEvent(queue, type, data)
    /\ published' = Append(published, Event(type, data))

NoPublish == UNCHANGED <<queue, published>>

Running == ~cancel_requested

(* ----------------------------- initial state -------------------------- *)

Requests == 1..MaxRequests

\* No request has been accepted: no queue and no message list exists.
ServerIdle ==
    /\ qheap = <<>>
    /\ sheap = <<>>
    /\ consumer_queue = [r \in Requests |-> 0]
    /\ handler_queue = [r \in Requests |-> 0]
    /\ state_ref = [r \in Requests |-> 0]
    /\ delivered = [r \in Requests |-> <<>>]

(* ------------------- direct calls of the functions -------------------- *)

\* The kinds of line DuckDuckGoSearchRun.run can return: a line with
\* "Title:", "URL:" and "Snippet:"; a line with "..." and "http" from which
\* snippet, url and title can all be taken; such a line with one of them
\* missing; any other line.
LineKinds == {"titled", "fallback", "fallback_partial", "other"}

LineSeqs == UNION {[1..n -> LineKinds] : n \in 0..MaxLines}

\* Where the backend of a tool function raises, if anywhere.
WebSearchFailures == {"none", "construct", "run"}
PdfReaderFailures == {"none", "download", "status", "parse", "extract"}

Call(fn, fail_at, lines, with_queue) ==
    [fn |-> fn, fail_at |-> fail_at, lines |-> lines,
     with_queue |-> with_queue]

NoCall == Call("none", "none", <<>>, FALSE)

\* A text is a sequence of characters, " " standing for whitespace.
Chars == {" ", "a"}
TextValues == UNION {[1..n -> Chars] : n \in 0..MaxTextLen}
TextLists == UNION {[1..n -> TextValues] : n \in 0..MaxTexts}
Topics == {"topic", "other topic"}

\* note_taker_tool(topic, category, texts)
NoteCall(t, category, texts) ==
    [fn |-> "note_taker_tool", fail_at |-> "none", lines |-> <<>>,
     with_queue |-> FALSE, topic |-> t, category |-> category,
     texts |-> texts]

Calls ==
    {Call("web_search_tool", f, l, FALSE) :
        f \in WebSearchFailures, l \in LineSeqs}
    \cup {NoteCall(t, "category", l) : t \in Topics, l \in TextLists}
    \cup {Call("pdf_reader_tool", f, <<>>, FALSE) : f \in PdfReaderFailures}
    \cup {Call("StreamingCallbackHandler", "none", <<>>, q) : q \in BOOLEAN}

\* A call returns a value or raises; value holds a list, or an optional
\* object as a sequence of at most one element (None is the empty one).
Returned(value) ==
    [status |-> "returned", exception |-> "none", value |-> value]
Raised(exception) ==
    [status |-> "raised", exception |-> exception, value |-> <<>>]
NoResult == [status |-> "idle", exception |-> "none", value |-> <<>>]

\* WebSearchResults(title=..., url=..., snippet=...) of line n.
WebSearchResult(n) == [title |-> "title", url |-> "http", snippet |-> n]

\* The parsing loop of web_search_tool: one result for each line of the
\* first form and each complete line of the second, in order.
RECURSIVE ParseLines(_, _)
ParseLines(lines, n) ==
    IF n > Len(lines) THEN <<>>
    ELSE (IF lines[n] \in {"titled", "fallback"}
          THEN <<WebSearchResult(n)>> ELSE <<>>) \o ParseLines(lines, n + 1)

\* web_search_tool: the backend object is constructed before the try
\* statement begins; search.run and the parsing are inside it and every
\* Exception there returns [].
web_search_tool(c) ==
    IF c.fail_at = "construct" THEN Raised("ImportError")
    ELSE IF c.fail_at = "run" THEN Returned(<<>>)
    ELSE Returned(ParseLines(c.lines, 1))

\* pdf_reader_tool: the whole body is inside the try statement; a
\* RequestException (download, HTTP status) and any other Exception
\* (parsing, text extraction) both return None.
pdf_reader_tool(c) ==
    IF c.fail_at = "none"
    THEN Returned(<<[url |-> "http", page_count |-> 1,
                     text_content |-> "text"]>>)
    ELSE Returned(<<>>)

\* str.lstrip() and str.rstrip(): whitespace removed from one end.
RECURSIVE lstrip(_)
lstrip(t) == IF t # <<>> /\ Head(t) = " " THEN lstrip(Tail(t)) ELSE t

RECURSIVE rstrip(_)
rstrip(t) ==
    IF t # <<>> /\ t[Len(t)] = " " THEN rstrip(SubSeq(t, 1, Len(t) - 1))
    ELSE t

\* str.strip()
strip(t) == rstrip(lstrip(t))

\* Comprehension mutated: the texts that pass the filter are kept as
\* they were given.
RECURSIVE aggregated_notes_unstripped(_)
aggregated_notes_unstripped(texts) ==
    IF texts = <<>> THEN <<>>
    ELSE (IF strip(Head(texts)) # <<>> THEN <<Head(texts)>> ELSE <<>>)
         \o aggregated_notes_unstripped(Tail(texts))

\* [note.strip() for note in texts if note.strip()]
RECURSIVE aggregated_notes(_)
aggregated_notes(texts) ==
    IF texts = <<>> THEN <<>>
    ELSE (IF strip(Head(texts)) # <<>> THEN <<strip(Head(texts))>>
          ELSE <<>>)
         \o aggregated_notes(Tail(texts))

\* note_taker_tool: the StructuredNote of the stripped, non-empty texts.
note_taker_tool(c) ==
    Returned(<<[topic |-> c.topic, category |-> c.category,
                notes |-> aggregated_notes(c.texts)]>>)

\* StreamingCallbackHandler.__init__(self, queue): queue has no default,
\* so a call without it raises TypeError; the object has the attributes
\* queue and llm_token_buffer and no others.
StreamingCallbackHandler(c) ==
    IF c.with_queue
    THEN Returned(<<[queue |-> <<>>, llm_token_buffer |-> <<>>]>>)
    ELSE Raised("TypeError")

\* event_generator has created the queue and the task; the task has built
\* initial_state (messages = [HumanMessage(query)] + chat_history, with
\* chat_history = []) and enters the graph at "llm".
RunInit ==
    /\ agentpc = "llm"
    /\ error = "none"
    /\ messages = <<HumanMessage("topic")>>
    /\ steps = 0
    /\ llm_token_buffer = <<>>
    /\ toolrun = <<>>
    /\ queue = <<>>
    /\ published = <<>>
    /\ yielded = <<>>
    /\ cpc = "check"
    /\ disconnected = FALSE
    /\ cancel_requested = FALSE
    /\ topic = "topic"
    /\ sources = <<>>
    /\ metadata = [search_queries_used |-> <<>>,
                   total_sources_analyzed |-> 0]
    /\ structuring_attempts = 0

\* No tool function is called directly while a run is observed.
Init ==
    /\ RunInit
    /\ call = NoCall
    /\ result = NoResult
    /\ ServerIdle

(* --------------------------- the agent task --------------------------- *)

\* astream: the next superstep would exceed the recursion limit; the
\* GraphRecursionError leaves run_graph_and_structure_output uncaught.
RecursionError ==
    /\ Running
    /\ agentpc \in {"llm", "call_tool"}
    /\ RecursionExceeded(steps)
    /\ agentpc' = "failed"
    /\ error' = "GraphRecursionError"
    /\ NoPublish
    /\ UNCHANGED <<callVars, serverVars, stateVars, structuring_attempts,
                   messages, steps, llm_token_buffer, toolrun, consumerVars,
                   disconnected, cancel_requested>>

\* call_llm begins: on_llm_start publishes agent_reasoning_start.
LlmStart ==
    /\ Running
    /\ agentpc = "llm"
    /\ ~RecursionExceeded(steps)
    /\ steps < StepCap
    /\ steps' = steps + 1
    /\ agentpc' = "llm_running"
    /\ Publish("agent_reasoning_start", "")
    /\ UNCHANGED <<callVars, serverVars, stateVars, structuring_attempts,
                   error, messages, llm_token_buffer, toolrun, consumerVars,
                   disconnected, cancel_requested>>

\* on_llm_new_token
LlmNewToken ==
    /\ Running
    /\ agentpc = "llm_running"
    /\ Len(llm_token_buffer) < MaxTokens
    /\ llm_token_buffer' =
          Append(llm_token_buffer, TokenAt(Len(llm_token_buffer) + 1))
    /\ NoPublish
    /\ UNCHANGED <<callVars, serverVars, stateVars, structuring_attempts,
                   agentpc, error, messages, steps, toolrun, consumerVars,
                   disconnected, cancel_requested>>

\* The model's response is complete: on_llm_end flushes the token buffer,
\* call_llm returns {"messages": [response]} and should_continue routes.
LlmEnd ==
    /\ Running
    /\ agentpc = "llm_running"
    /\ \E names \in CallNameSeqs :
         /\ Len(names) <= CallsAllowed(messages)
         /\ LET response == AIMessage(Join(llm_token_buffer), names,
                                      Len(messages) + 1)
                msgs == operator_add(messages, <<response>>)
            IN  /\ messages' = msgs
                /\ agentpc' = IF should_continue(msgs) = "call_tool"
                              THEN "call_tool" ELSE "structuring"
    /\ IF llm_token_buffer # <<>>
       THEN Publish("llm_full_response", full_response(llm_token_buffer))
       ELSE NoPublish
    /\ llm_token_buffer' = <<>>
    /\ NodeWrites(call_llm_keys)
    /\ UNCHANGED <<callVars, serverVars, structuring_attempts, error, steps,
                   toolrun, consumerVars, disconnected, cancel_requested>>

\* llm_with_tools.invoke raises (model or transport error); call_llm does
\* not catch it and neither does run_graph_and_structure_output.
LlmError ==
    /\ Running
    /\ agentpc = "llm_running"
    /\ agentpc' = "failed"
    /\ error' = "ModelError"
    /\ NoPublish
    /\ UNCHANGED <<callVars, serverVars, stateVars, structuring_attempts,
                   messages, steps, llm_token_buffer, toolrun, consumerVars,
                   disconnected, cancel_requested>>

\* The last message of the state, whose tool calls the tool node runs.
LastCalls == messages[Len(messages)].tool_calls

\* The call_tool node starts: one unit of work per requested call.  The
\* node runs the calls of one message concurrently, so the steps of
\* different calls interleave freely.
ToolNodeEnter ==
    /\ Running
    /\ agentpc = "call_tool"
    /\ ~RecursionExceeded(steps)
    /\ steps < StepCap
    /\ steps' = steps + 1
    /\ agentpc' = "tools_running"
    /\ toolrun' = [i \in 1..Len(LastCalls) |-> "pending"]
    /\ NoPublish
    /\ UNCHANGED <<callVars, serverVars, stateVars, structuring_attempts,
                   error, messages, llm_token_buffer, consumerVars,
                   disconnected, cancel_requested>>

\* A call of a registered tool begins: on_tool_start.
ToolStart(i) ==
    /\ Running
    /\ agentpc = "tools_running"
    /\ toolrun[i] = "pending"
    /\ LastCalls[i].name \in Tools
    /\ toolrun' = [toolrun EXCEPT ![i] = "started"]
    /\ Publish("tool_start", LastCalls[i].name)
    /\ UNCHANGED <<callVars, serverVars, stateVars, structuring_attempts,
                   agentpc, error, messages, steps, llm_token_buffer,
                   consumerVars, disconnected, cancel_requested>>

\* A call names no registered tool: the node answers it with an error
\* message without invoking anything.
ToolUnknown(i) ==
    /\ Running
    /\ agentpc = "tools_running"
    /\ toolrun[i] = "pending"
    /\ LastCalls[i].name \notin Tools
    /\ toolrun' = [toolrun EXCEPT ![i] = "invalid"]
    /\ NoPublish
    /\ UNCHANGED <<callVars, serverVars, stateVars, structuring_attempts,
                   agentpc, error, messages, steps, llm_token_buffer,
                   consumerVars, disconnected, cancel_requested>>

\* The tool returns: on_tool_end.
ToolEnd(i) ==
    /\ Running
    /\ agentpc = "tools_running"
    /\ toolrun[i] = "started"
    /\ toolrun' = [toolrun EXCEPT ![i] = "ok"]
    /\ Publish("tool_end", "output")
    /\ UNCHANGED <<callVars, serverVars, stateVars, structuring_attempts,
                   agentpc, error, messages, steps, llm_token_buffer,
                   consumerVars, disconnected, cancel_requested>>

\* The tool invocation raises (arguments rejected by the args_schema, or
\* the tool function raising): the callback fired is on_tool_error, which
\* StreamingCallbackHandler does not define, so nothing is published.
ToolError(i) ==
    /\ Running
    /\ agentpc = "tools_running"
    /\ toolrun[i] = "started"
    /\ toolrun' = [toolrun EXCEPT ![i] = "error"]
    /\ NoPublish
    /\ UNCHANGED <<callVars, serverVars, stateVars, structuring_attempts,
                   agentpc, error, messages, steps, llm_token_buffer,
                   consumerVars, disconnected, cancel_requested>>

\* Tool node mutated: a raised tool error is answered as if the tool had
\* returned.
ToolContentHidesError(st) ==
    CASE st = "invalid" -> "Error: not a valid tool"
      [] st \in {"ok", "error"} -> "output"
      [] OTHER -> "unfinished"

\* The content of the ToolMessage that answers a call.
ToolContent(st) ==
    CASE st = "ok" -> "output"
      [] st = "error" -> "Error: tool raised"
      [] st = "invalid" -> "Error: not a valid tool"
      [] OTHER -> "unfinished"

\* Tool node mutated: the results do not carry the identifiers of the
\* calls they answer.
ToolResultNoId(i) == ToolMessage(ToolContent(toolrun[i]), 0)

\* The ToolMessage of call i of the running tool node.
ToolResult(i) == ToolMessage(ToolContent(toolrun[i]), LastCalls[i].id)

Finished(i) == toolrun[i] \in {"ok", "error", "invalid"}

\* Cancellation mutated: the results obtained so far are written to the
\* state before the node gives up.
MessagesOnCancelFlush(msgs) ==
    msgs \o SelectSeq([i \in 1..Len(toolrun) |->
                          IF Finished(i) THEN ToolResult(i)
                          ELSE ToolMessage("unfinished", 0)],
                     LAMBDA m : m.content # "unfinished")

\* The message list a cancelled run is left with: the node's return value
\* is the only write to the state, so a node that did not return has
\* written nothing.
MessagesOnCancel(msgs) == msgs

\* All calls are finished: the node returns one ToolMessage per call, the
\* operator.add reducer appends them, and the edge leads back to "llm".
\* Graph mutated: the tool node's edge leads out of the loop.
AfterToolNodeEnd == "structuring"

\* workflow.add_edge("call_tool", "llm"): the node that runs after the tool
\* node.
AfterToolNode == "llm"

ToolNodeReturn ==
    /\ Running
    /\ agentpc = "tools_running"
    /\ \A i \in 1..Len(toolrun) : Finished(i)
    /\ messages' = operator_add(messages,
                                [i \in 1..Len(toolrun) |-> ToolResult(i)])
    /\ toolrun' = <<>>
    /\ NodeWrites(tool_node_keys)
    /\ agentpc' = AfterToolNode
    /\ NoPublish
    /\ UNCHANGED <<callVars, serverVars, structuring_attempts, error, steps,
                   llm_token_buffer, consumerVars, disconnected,
                   cancel_requested>>

\* The topic of the run: the query, kept as the first message.
Topic == messages[1].content

\* The outcome of the structuring call: building its input reads the name
\* final_messages, which is bound nowhere, so the call leaves with
\* NameError before the structuring model is asked and no ResearchOutput
\* exists. output is the ResearchOutput as a sequence of at most one.
StructuringResult(query, msgs) == [exception |-> "NameError", output |-> <<>>]

\* Structuring mutated: a failed structuring step sends the run back to
\* the reasoning step.
OnStructuringErrorRetry == "llm"

\* No handler surrounds the structuring call: its exception leaves
\* run_graph_and_structure_output and ends the run.
OnStructuringError == "failed"

\* The structuring step: building the argument of
\* structured_output_chain.ainvoke reads the name final_messages, which is
\* bound nowhere (agent.py:218), so a NameError leaves the function before
\* the chain is invoked and before anything more is published.  The lines
\* after it (agent.py:222-225: final_research_output, on_workflow_end,
\* return) are therefore never executed and "done" is never entered.
StructureOutput ==
    /\ Running
    /\ agentpc = "structuring"
    /\ structuring_attempts' = structuring_attempts + 1
    /\ LET r == StructuringResult(Topic, messages)
       IN  /\ agentpc' = IF r.exception = "none" THEN "done"
                                                 ELSE OnStructuringError
           /\ error' = r.exception
    /\ NoPublish
    /\ UNCHANGED <<callVars, serverVars, stateVars, messages, steps,
                   llm_token_buffer, toolrun, consumerVars, disconnected,
                   cancel_requested>>

\* The task was cancelled: CancelledError is raised at the await the task
\* is suspended in and nothing in the task catches it.
AgentCancelled ==
    /\ cancel_requested
    /\ agentpc \notin Terminal
    /\ agentpc' = "cancelled"
    /\ error' = "CancelledError"
    /\ messages' = MessagesOnCancel(messages)
    /\ NoPublish
    /\ UNCHANGED <<callVars, serverVars, stateVars, structuring_attempts,
                   steps, llm_token_buffer, toolrun, consumerVars,
                   disconnected, cancel_requested>>

AgentNext ==
    \/ RecursionError
    \/ LlmStart
    \/ LlmNewToken
    \/ LlmEnd
    \/ LlmError
    \/ ToolNodeEnter
    \/ \E i \in 1..MaxCalls : i <= Len(toolrun) /\ ToolStart(i)
    \/ \E i \in 1..MaxCalls : i <= Len(toolrun) /\ ToolUnknown(i)
    \/ \E i \in 1..MaxCalls : i <= Len(toolrun) /\ ToolEnd(i)
    \/ \E i \in 1..MaxCalls : i <= Len(toolrun) /\ ToolError(i)
    \/ ToolNodeReturn
    \/ StructureOutput
    \/ AgentCancelled

(* --------------------------- event_generator -------------------------- *)

\* The client goes away.
ClientDisconnect ==
    /\ ~disconnected
    /\ cpc \notin {"returned", "raised"}
    /\ disconnected' = TRUE
    /\ UNCHANGED <<callVars, serverVars, agentVars, queue, published,
                   consumerVars, cancel_requested>>

\* if await request.is_disconnected(): break
ConsumerCheck ==
    /\ cpc = "check"
    /\ cpc' = IF disconnected THEN "finally" ELSE "get"
    /\ UNCHANGED <<callVars, serverVars, agentVars, queue, published, yielded,
                   disconnected, cancel_requested>>

\* event = await queue.get(); yield ...; break on workflow_end.
\* No await lies between the get and the yield.  The "except Exception"
\* branch (app.py:76-78) has no action: is_disconnected, queue.get and
\* json.dumps(event, default=str) do not raise on the events of _put_event.
ConsumerGetYield ==
    /\ cpc = "get"
    /\ queue # <<>>
    /\ LET event == Head(queue)
       IN  /\ yielded' = Append(yielded, event)
           /\ cpc' = IF event.type = "workflow_end" THEN "finally"
                     ELSE "check"
    /\ queue' = Tail(queue)
    /\ UNCHANGED <<callVars, serverVars, agentVars, published, disconnected,
                   cancel_requested>>

\* The response was torn down while the generator waits in queue.get():
\* except asyncio.CancelledError: pass
ConsumerCancelled ==
    /\ cpc = "get"
    /\ disconnected
    /\ cpc' = "finally"
    /\ UNCHANGED <<callVars, serverVars, agentVars, queue, published, yielded,
                   disconnected, cancel_requested>>

\* finally: task.cancel()
FinallyCancel ==
    /\ cpc = "finally"
    /\ cancel_requested' = (agentpc \notin Terminal)
    /\ cpc' = "await_task"
    /\ UNCHANGED <<callVars, serverVars, agentVars, queue, published, yielded,
                   disconnected>>

\* finally: await task, with except asyncio.CancelledError: pass; any other
\* exception of the task leaves the generator.
FinallyAwait ==
    /\ cpc = "await_task"
    /\ TaskDone(agentpc)
    /\ cpc' = IF agentpc = "failed" THEN "raised" ELSE "returned"
    /\ UNCHANGED <<callVars, serverVars, agentVars, queue, published, yielded,
                   disconnected, cancel_requested>>

ConsumerNext ==
    \/ ConsumerCheck
    \/ ConsumerGetYield
    \/ ConsumerCancelled
    \/ FinallyCancel
    \/ FinallyAwait

Next ==
    \/ AgentNext
    \/ ConsumerNext
    \/ ClientDisconnect

Spec == Init /\ [][Next]_vars

(* ------------------------- one-shot invocation ------------------------ *)

\* aget_research_output(query, callback_queue): the same run with a queue
\* that nobody reads and no one to cancel it.
OneShotNext ==
    \/ RecursionError
    \/ LlmStart
    \/ LlmNewToken
    \/ LlmEnd
    \/ LlmError
    \/ ToolNodeEnter
    \/ \E i \in 1..MaxCalls : i <= Len(toolrun) /\ ToolStart(i)
    \/ \E i \in 1..MaxCalls : i <= Len(toolrun) /\ ToolUnknown(i)
    \/ \E i \in 1..MaxCalls : i <= Len(toolrun) /\ ToolEnd(i)
    \/ \E i \in 1..MaxCalls : i <= Len(toolrun) /\ ToolError(i)
    \/ ToolNodeReturn
    \/ StructureOutput

\* The event loop keeps running the task while it can take a step: a model
\* call and a tool call return or raise, neither hangs.
OneShotFairSpec == Init /\ [][OneShotNext]_vars /\ WF_vars(OneShotNext)

(* -------------------- direct calls: actions --------------------------- *)

CallInit ==
    /\ RunInit
    /\ call \in Calls
    /\ result = NoResult
    /\ ServerIdle

InvokeWebSearch ==
    /\ call.fn = "web_search_tool"
    /\ result.status = "idle"
    /\ result' = web_search_tool(call)
    /\ UNCHANGED <<runVars, serverVars, call>>

InvokePdfReader ==
    /\ call.fn = "pdf_reader_tool"
    /\ result.status = "idle"
    /\ result' = pdf_reader_tool(call)
    /\ UNCHANGED <<runVars, serverVars, call>>

CreateHandler ==
    /\ call.fn = "StreamingCallbackHandler"
    /\ result.status = "idle"
    /\ result' = StreamingCallbackHandler(call)
    /\ UNCHANGED <<runVars, serverVars, call>>

InvokeNoteTaker ==
    /\ call.fn = "note_taker_tool"
    /\ result.status = "idle"
    /\ result' = note_taker_tool(call)
    /\ UNCHANGED <<runVars, serverVars, call>>

CallNext ==
    \/ InvokeWebSearch
    \/ InvokePdfReader
    \/ InvokeNoteTaker
    \/ CreateHandler

CallSpec == CallInit /\ [][CallNext]_vars

(* ------------------------- concurrent requests ------------------------ *)

\* The research topic of request r; concurrent requests are given
\* different topics so that what a run wrote can be told from what
\* another wrote.
TopicOf(r) == IF r = 1 THEN "topic" ELSE "other topic"

\* Handler mutated: every handler publishes to the first queue that was
\* created, as one queue kept at module level would be.
SharedQueue(callback_queue) == 1

\* StreamingCallbackHandler(callback_queue if callback_queue is not None
\* else asyncio.Queue()): the handler of a run holds the queue that came
\* in with the run's input.
HandlerQueue(callback_queue) == callback_queue

\* A request arrives: event_generator creates its queue and starts the
\* agent task with it; the task builds its own handler and its own
\* initial state.
Accept(r) ==
    /\ consumer_queue[r] = 0
    /\ LET q == Len(qheap) + 1
           st == Len(sheap) + 1
       IN  /\ qheap' = Append(qheap, <<>>)
           /\ sheap' = Append(sheap, <<HumanMessage(TopicOf(r))>>)
           /\ consumer_queue' = [consumer_queue EXCEPT ![r] = q]
           /\ handler_queue' = [handler_queue EXCEPT ![r] = HandlerQueue(q)]
           /\ state_ref' = [state_ref EXCEPT ![r] = st]
    /\ UNCHANGED <<runVars, callVars, delivered>>

\* A reasoning step of the run of request r: the response is published
\* through the run's handler and appended to the run's message list.
RunStep(r) ==
    /\ state_ref[r] # 0
    /\ Len(sheap[state_ref[r]]) <= MaxRunSteps
    /\ LET st == state_ref[r]
           q == handler_queue[r]
           m == Len(sheap[st])
       IN  /\ sheap' = [sheap EXCEPT
                          ![st] = Append(@, AIMessage(TopicOf(r), <<>>, m))]
           /\ qheap' = [qheap EXCEPT
                          ![q] = PutEvent(@, "llm_full_response",
                                          TopicOf(r))]
    /\ UNCHANGED <<runVars, callVars, consumer_queue, handler_queue, state_ref,
                   delivered>>

\* event_generator of request r takes the next event from its queue and
\* yields it.
Deliver(r) ==
    /\ consumer_queue[r] # 0
    /\ qheap[consumer_queue[r]] # <<>>
    /\ LET q == consumer_queue[r]
       IN  /\ delivered' = [delivered EXCEPT
                              ![r] = Append(@, Head(qheap[q]))]
           /\ qheap' = [qheap EXCEPT ![q] = Tail(@)]
    /\ UNCHANGED <<runVars, callVars, sheap, consumer_queue, handler_queue,
                   state_ref>>

ServerNext ==
    \/ \E r \in Requests : Accept(r)
    \/ \E r \in Requests : RunStep(r)
    \/ \E r \in Requests : Deliver(r)

ServerSpec == Init /\ [][ServerNext]_vars

(* ------------------------------ sanity -------------------------------- *)

TypeOK ==
    /\ agentpc \in AgentPcs
    /\ cpc \in ConsumerPcs
    /\ steps \in 0..StepCap
    /\ Len(llm_token_buffer) <= MaxTokens
    /\ disconnected \in BOOLEAN
    /\ cancel_requested \in BOOLEAN

StepsWithinLimit == steps <= RecursionLimit

(* --------------------------- event sequences -------------------------- *)

\* The kinds of a sequence of events, in order.
Types(events) == [i \in 1..Len(events) |-> events[i].type]

\* How many events of a sequence have the given kind.
Count(events, type) ==
    Cardinality({i \in 1..Len(events) : events[i].type = type})

IsToolEvent(e) == e.type \in {"tool_start", "tool_end"}

\* seq is start, end, start, end, ...
Alternates(seq) ==
    \A i \in 1..Len(seq) :
        seq[i].type = IF i % 2 = 1 THEN "tool_start" ELSE "tool_end"

\* The run ended on its own: it was not cancelled from outside.
RunEnded == agentpc \in {"done", "failed"}

\* Every response of the model so far requested a tool.
EveryResponseRequestsTool ==
    \A i \in 1..Len(messages) :
        messages[i].role = "ai" => messages[i].tool_calls # <<>>

HasToolResult == \E i \in 1..Len(messages) : messages[i].role = "tool"

\* The transcript of the scenario: one web_search call that returns, then
\* a final answer, both responses streamed as tokens.
SearchThenAnswer ==
    /\ Len(messages) = 4
    /\ messages[2].role = "ai"
    /\ Len(messages[2].tool_calls) = 1
    /\ messages[2].tool_calls[1].name = "web_search"
    /\ messages[2].content # ""
    /\ messages[3].role = "tool"
    /\ messages[3].content = "output"
    /\ messages[4].role = "ai"
    /\ messages[4].tool_calls = <<>>
    /\ messages[4].content # ""

(* ------------------------------- claims ------------------------------- *)

\* C1: every run that ended (successful, failed, or stopped by the iteration
\* limit) has published workflow_end exactly once, as its last event.
\* Fails: no path of run_graph_and_structure_output that ends in an
\* exception publishes anything, and every path ends in one.
C1_WorkflowEndExactlyOnceAndLast ==
    RunEnded =>
        /\ Count(published, "workflow_end") = 1
        /\ published[Len(published)].type = "workflow_end"

\* C2: the run reaches a terminal state after finitely many steps; the
\* llm -> call_tool -> llm loop does not go on forever.
C2_RunTerminates == <>(agentpc \in Terminal)

\* C2 witness: a run that went round the loop and then ended.
C2_EndedAfterToolCycle == RunEnded /\ HasToolResult

\* C3: when the model requests a tool on every reasoning step, reaching the
\* iteration bound never puts the run in Failed.
\* Fails: the bound is the graph's recursion limit, whose
\* GraphRecursionError ends the run.
C3_BoundNeverFails ==
    ~(/\ agentpc = "failed"
      /\ error = "GraphRecursionError"
      /\ EveryResponseRequestsTool)

\* C4: whenever a run fails, an error event followed by workflow_end has
\* been published when the task ends.
C4_FailurePublishesErrorThenEnd ==
    agentpc = "failed" =>
        /\ Len(published) >= 2
        /\ published[Len(published) - 1].type = "error"
        /\ published[Len(published)].type = "workflow_end"

\* C5: the consumer loop of event_generator never waits forever on the
\* queue: while the generator has not ended, either it can take a step or
\* the agent task can still take one (and publish).
\* Fails after the task failed without workflow_end and the queue is
\* drained: queue.get() never returns while the client stays.
C5_ConsumerNeverWaitsForever ==
    \/ cpc \in {"returned", "raised"}
    \/ ENABLED ConsumerNext
    \/ ENABLED AgentNext

\* C6: what event_generator has yielded is a prefix of what the run has
\* published, in the same order, and the events still queued are exactly
\* the rest: nothing is dropped, duplicated or reordered.
C6_YieldedIsPrefixOfPublished ==
    /\ Len(yielded) <= Len(published)
    /\ SubSeq(published, 1, Len(yielded)) = yielded
    /\ yielded \o queue = published

\* C6 witness: several events of different kinds were yielded while more
\* are waiting in the queue.
C6_YieldedSomeQueuedSome ==
    /\ Len(yielded) >= 3
    /\ yielded[1].type # yielded[3].type
    /\ Len(queue) >= 2

\* C7: in a run that has not failed, the tool events published so far are
\* tool_start, tool_end, tool_start, tool_end, ..., and no tool_start is
\* left unanswered once the tool node has returned.
\* Fails when one response carries two calls (both start before either
\* ends) and when a tool invocation raises (C8).
C7_ToolStartThenOneToolEnd ==
    agentpc \notin {"failed", "cancelled"} =>
        /\ Alternates(SelectSeq(published, IsToolEvent))
        /\ agentpc # "tools_running" =>
              Len(SelectSeq(published, IsToolEvent)) % 2 = 0

\* C8: every tool invocation publishes tool_start before the tool runs and
\* tool_end after it, whether it returned or raised: the tool_start events
\* without a tool_end are those of the invocations still in flight.
\* Fails for an invocation that raises: on_tool_error publishes nothing.
C8_ToolEndAfterEveryInvocation ==
    Count(published, "tool_start") - Count(published, "tool_end")
        = Cardinality({i \in 1..Len(toolrun) : toolrun[i] = "started"})

\* C9: a run in which the model requests one web_search call and then gives
\* a final answer publishes exactly reasoning_start, reasoning_end,
\* tool_start, tool_end, reasoning_start, reasoning_end, final_output,
\* workflow_end.
\* Fails: the run ends in the structuring step before the last two.
C9_ScenarioEventSequence ==
    (RunEnded /\ SearchThenAnswer) =>
        Types(published) =
            <<"agent_reasoning_start", "llm_full_response", "tool_start",
              "tool_end", "agent_reasoning_start", "llm_full_response",
              "final_research_output", "workflow_end">>

\* C10: event_generator cancels the agent task when its loop ends and does
\* not end before the task has finished: once it has ended no agent task is
\* running, and a task still running while it is awaited has been
\* cancelled.
C10_NoOrphanTask ==
    /\ cpc \in {"returned", "raised"} => agentpc \in Terminal
    /\ (cpc = "await_task" /\ agentpc \notin Terminal) => cancel_requested

\* C10 witness: the client went away in the middle of a run, the task was
\* cancelled and event_generator returned.
C10_DisconnectedMidRun ==
    /\ disconnected
    /\ cpc = "returned"
    /\ agentpc = "cancelled"
    /\ published # <<>>

\* Every assistant message with tool calls is answered either by the
\* results of all its calls, in call order and carrying the calls'
\* identifiers, or by nothing at all (it is then the last message).
AnsweredFullyOrNotAtAll(msgs) ==
    \A m \in 1..Len(msgs) :
        (msgs[m].role = "ai" /\ msgs[m].tool_calls # <<>>) =>
            \/ m = Len(msgs)
            \/ /\ Len(msgs) >= m + Len(msgs[m].tool_calls)
               /\ \A i \in 1..Len(msgs[m].tool_calls) :
                     /\ msgs[m + i].role = "tool"
                     /\ msgs[m + i].tool_call_id = msgs[m].tool_calls[i].id

\* C11: a run cancelled while tool calls are being executed leaves either
\* all tool-result messages of that dispatch step in the message list or
\* none of them.
C11_CancelledAllResultsOrNone ==
    agentpc = "cancelled" => AnsweredFullyOrNotAtAll(messages)

\* C11 witness: the run was cancelled when one call of a dispatch step had
\* returned and another had not.
C11_CancelledMidDispatch ==
    /\ agentpc = "cancelled"
    /\ \E i, j \in 1..Len(toolrun) :
          toolrun[i] = "ok" /\ toolrun[j] \in {"pending", "started"}

\* The step that ends a dispatch step in which some call has status st.
DispatchEndsWith(st) ==
    /\ agentpc = "tools_running"
    /\ agentpc' # "tools_running"
    /\ \E i \in 1..Len(toolrun) : toolrun[i] = st

\* After the step, every call of status st is answered by a tool-result
\* message of the given content, the loop is back at the reasoning step
\* and the run carries no error.
AnsweredAndBackToReasoning(st, content) ==
    /\ agentpc' = "llm"
    /\ error' = "none"
    /\ Len(messages') = Len(messages) + Len(toolrun)
    /\ \A i \in 1..Len(toolrun) :
          toolrun[i] = st =>
              messages'[Len(messages) + i] =
                  ToolMessage(content, LastCalls[i].id)

\* C12: when the model asks for a tool name that is not registered, the
\* dispatcher appends a tool-result message describing the unknown tool,
\* the loop returns to the reasoning step, and the run does not fail.
C12_UnknownToolAnswered ==
    [][DispatchEndsWith("invalid") =>
          \/ agentpc' = "cancelled"
          \/ AnsweredAndBackToReasoning("invalid",
                                        "Error: not a valid tool")]_vars

\* C12 witness: the reasoning step runs again with the description of the
\* unknown tool in the message list.
C12_ReasoningAfterUnknownTool ==
    /\ agentpc = "llm_running"
    /\ \E m \in 1..Len(messages) :
          /\ messages[m].role = "tool"
          /\ messages[m].content = "Error: not a valid tool"

\* C13: when a tool function fails during a call, the failure description
\* is appended as a tool-result message and the run continues with the
\* next reasoning step; a tool failure never moves the run to Failed.
C13_ToolFailureAnswered ==
    [][/\ DispatchEndsWith("error") =>
             \/ agentpc' = "cancelled"
             \/ AnsweredAndBackToReasoning("error", "Error: tool raised")
       /\ agentpc = "tools_running" => agentpc' # "failed"]_vars

\* C13 witness: the reasoning step runs again with the failure description
\* of a tool call in the message list.
C13_ReasoningAfterToolFailure ==
    /\ agentpc = "llm_running"
    /\ \E m \in 1..Len(messages) :
          /\ messages[m].role = "tool"
          /\ messages[m].content = "Error: tool raised"

\* Neither the model nor a tool failed, and the loop ended within the
\* recursion limit.
ModelAndToolsDidNotFail ==
    /\ error \notin {"ModelError", "GraphRecursionError"}
    /\ \A m \in 1..Len(messages) :
          messages[m].role = "tool" => messages[m].content = "output"

\* C14: a one-shot invocation never ends with an exception leaving the
\* run, and a run whose model and tools do not fail returns a
\* ResearchOutput.
C14_OneShotReturnsOutput ==
    (RunEnded /\ ModelAndToolsDidNotFail) =>
        /\ agentpc = "done"
        /\ error = "none"

\* The structuring step was entered and has ended.
StructuringEnded ==
    /\ RunEnded
    /\ error \notin {"ModelError", "GraphRecursionError"}

SourceBearingResults(msgs) ==
    Cardinality({m \in 1..Len(msgs) :
                    msgs[m].role = "tool" /\ msgs[m].content = "output"})

C17_PublishNeverBlocks ==
    <>(agentpc \in Terminal /\ queue = published /\ yielded = <<>>)

\* C17 witness: a run ended after a tool cycle with all its events still
\* unread in the queue.
C17_EndedWithUnreadEvents ==
    /\ RunEnded
    /\ yielded = <<>>
    /\ Len(queue) >= 4
    /\ queue = published

\* C18: the structuring step is entered only from a reasoning step whose
\* response ends the loop; from the structuring step the run only ends;
\* and an ended run takes no further reasoning step or tool call.  The
\* structuring step is therefore started at most once per run.
C18_StructuringOnceAfterLoop ==
    [][/\ (agentpc' = "structuring" /\ agentpc # "structuring") =>
             /\ agentpc = "llm_running"
             /\ should_continue(messages') = "end"
       /\ agentpc = "structuring" =>
             /\ agentpc' \in {"structuring"} \cup Terminal
             /\ messages' = messages
             /\ toolrun' = toolrun
       /\ agentpc \in Terminal =>
             /\ agentpc' = agentpc
             /\ messages' = messages
             /\ toolrun' = toolrun
             /\ steps' = steps]_vars

\* C18 witness: the structuring step was started after a loop with a tool
\* cycle and has ended.
C18_StructuringEndedAfterToolCycle ==
    /\ agentpc = "failed"
    /\ error = "NameError"
    /\ HasToolResult

\* C19: a StreamingCallbackHandler can be created without a queue, and
\* the handler then has the event log log_stream in which the events of a
\* run are recorded.
C19_HandlerWithoutQueueHasLog ==
    (/\ call.fn = "StreamingCallbackHandler"
     /\ ~call.with_queue
     /\ result.status # "idle") =>
        /\ result.status = "returned"
        /\ result.value # <<>>
        /\ "log_stream" \in DOMAIN result.value[1]

\* C20: web_search_tool and pdf_reader_tool never raise, and return the
\* empty list and None whenever their backend raises.
C20_ToolsReturnFailuresAsValues ==
    (/\ call.fn \in {"web_search_tool", "pdf_reader_tool"}
     /\ result.status # "idle") =>
        /\ result.status = "returned"
        /\ call.fail_at # "none" => result.value = <<>>

\* The positions of the characters of t that are not whitespace.
Inked(t) == {k \in 1..Len(t) : t[k] # " "}

Least(S) == CHOOSE k \in S : \A j \in S : k <= j
Greatest(S) == CHOOSE k \in S : \A j \in S : k >= j

\* t without its surrounding whitespace: from its first to its last
\* character that is not whitespace.
Core(t) == SubSeq(t, Least(Inked(t)), Greatest(Inked(t)))

\* notes is texts with surrounding whitespace removed, in input order,
\* the texts that are all whitespace left out: the k-th note is the core
\* of the k-th text that has one.
IsNotesOf(notes, texts) ==
    LET kept == {i \in 1..Len(texts) : Inked(texts[i]) # {}}
    IN  /\ Len(notes) = Cardinality(kept)
        /\ \A i \in kept :
              notes[Cardinality({j \in kept : j <= i})] = Core(texts[i])

\* C21: note_taker_tool returns a StructuredNote with the topic and the
\* category it was given, whose notes are the given texts stripped, in
\* input order, without those that are empty after stripping.
C21_NotesAreStrippedTexts ==
    (call.fn = "note_taker_tool" /\ result.status # "idle") =>
        /\ result.status = "returned"
        /\ Len(result.value) = 1
        /\ result.value[1].topic = call.topic
        /\ result.value[1].category = call.category
        /\ IsNotesOf(result.value[1].notes, call.texts)

\* C21 witness: a call returned for two texts, one of them all whitespace
\* and the other with whitespace around it.
C21_StrippedOneDroppedOne ==
    /\ call.fn = "note_taker_tool"
    /\ result.status = "returned"
    /\ Len(call.texts) = 2
    /\ \E i, j \in 1..2 :
          /\ Inked(call.texts[i]) = {}
          /\ Inked(call.texts[j]) # {}
          /\ call.texts[j] # Core(call.texts[j])
    /\ Len(result.value[1].notes) = 1

\* C22: concurrent runs share nothing: every message in the message list
\* of a run was appended by that run, every event delivered to the
\* consumer of a request was published by that request's run, and no two
\* requests have the same queue or the same message list.
C22_RunsAreIsolated ==
    /\ \A r \in Requests :
          state_ref[r] # 0 =>
              \A m \in 1..Len(sheap[state_ref[r]]) :
                  sheap[state_ref[r]][m].content = TopicOf(r)
    /\ \A r \in Requests :
          \A k \in 1..Len(delivered[r]) : delivered[r][k].data = TopicOf(r)
    /\ \A r1, r2 \in Requests :
          (r1 # r2 /\ state_ref[r1] # 0 /\ state_ref[r2] # 0) =>
              /\ state_ref[r1] # state_ref[r2]
              /\ handler_queue[r1] # handler_queue[r2]
              /\ consumer_queue[r1] # consumer_queue[r2]

\* C22 witness: two runs are in progress, each has appended a response
\* and each consumer has been delivered an event while the other run's
\* events were waiting.
C22_TwoRunsInterleaved ==
    /\ \A r \in {1, 2} :
          /\ state_ref[r] # 0
          /\ Len(sheap[state_ref[r]]) >= 2
          /\ delivered[r] # <<>>
          /\ qheap[consumer_queue[r]] # <<>>

Last(msgs) == msgs[Len(msgs)]

RequestsTool(m) == m.role = "ai" /\ m.tool_calls # <<>>

\* C23: a reasoning step appends the assistant message and the next step
\* is decided by that message alone: the tool node if it requests at
\* least one tool call, structuring otherwise; and the tool node is
\* entered only while the last message requests a tool call.
C23_LastMessageDecidesRoute ==
    [][/\ (agentpc = "llm_running" /\ agentpc' \notin {"llm_running",
                                                        "failed",
                                                        "cancelled"}) =>
             /\ Len(messages') = Len(messages) + 1
             /\ SubSeq(messages', 1, Len(messages)) = messages
             /\ Last(messages').role = "ai"
             /\ RequestsTool(Last(messages')) => agentpc' = "call_tool"
             /\ ~RequestsTool(Last(messages')) => agentpc' = "structuring"
       /\ agentpc' \in {"call_tool", "tools_running"} =>
             /\ RequestsTool(Last(messages'))
             /\ agentpc' = "tools_running" => toolrun' # <<>>]_vars

\* C23 witness: in one run a response with tool calls led to the tool
\* node and a later response without any led to structuring.
C23_BothRoutesTaken ==
    /\ agentpc = "structuring"
    /\ ~RequestsTool(Last(messages))
    /\ \E m \in 1..Len(messages) : RequestsTool(messages[m])

\* C24: the dispatch step for an assistant message with n tool-call
\* requests appends exactly n tool-result messages, the i-th carrying the
\* identifier of the i-th call, and hands over to the reasoning step.
C24_OneResultPerCall ==
    [][(agentpc = "tools_running" /\ agentpc' \notin {"tools_running",
                                                       "cancelled"}) =>
          LET calls == Last(messages).tool_calls
              n == Len(calls)
          IN  /\ n >= 1
              /\ Len(messages') = Len(messages) + n
              /\ SubSeq(messages', 1, Len(messages)) = messages
              /\ \A i \in 1..n :
                    /\ messages'[Len(messages) + i].role = "tool"
                    /\ messages'[Len(messages) + i].tool_call_id =
                          calls[i].id
              /\ agentpc' = "llm"]_vars

\* C24 witness: a response with two tool calls has just been answered by
\* two tool-result messages and the reasoning step is next.
C24_TwoCallsAnswered ==
    /\ agentpc = "llm"
    /\ Len(messages) >= 4
    /\ Len(messages[Len(messages) - 2].tool_calls) = 2
    /\ messages[Len(messages) - 1].role = "tool"
    /\ Last(messages).role = "tool"

\* C25: the message list only grows at its end: in every step the list
\* before the step is a prefix of the list after it.
C25_MessagesAppendOnly ==
    [][/\ Len(messages') >= Len(messages)
       /\ SubSeq(messages', 1, Len(messages)) = messages]_vars

\* C25 witness: the list has grown by a response, its tool result and a
\* second response.
C25_GrownByThreeSteps ==
    /\ Len(messages) >= 4
    /\ messages[1].role = "human"
    /\ messages[2].role = "ai"
    /\ messages[3].role = "tool"
    /\ messages[4].role = "ai"

\* The contents of the assistant messages, one per completed reasoning
\* step, in order: the content of a response is the concatenation of the
\* tokens that were streamed for it.
ResponseContents(msgs) ==
    LET ai == SelectSeq(msgs, LAMBDA m : m.role = "ai")
    IN  [k \in 1..Len(ai) |-> ai[k].content]

StartsOf(events) ==
    {i \in 1..Len(events) : events[i].type = "agent_reasoning_start"}

\* The position of the k-th reasoning-start event.
KthStart(events, k) ==
    CHOOSE i \in StartsOf(events) :
        Cardinality({j \in StartsOf(events) : j <= i}) = k

\* The positions of the full-response events between the k-th
\* reasoning-start event and the next one (or the end of the events).
FullResponsesOfStep(events, k) ==
    LET from == KthStart(events, k)
        to == IF k < Cardinality(StartsOf(events))
              THEN KthStart(events, k + 1) ELSE Len(events) + 1
    IN  {i \in from..(to - 1) : events[i].type = "llm_full_response"}

\* Every completed reasoning step has its reasoning-start event.
StepsHaveStarts ==
    Len(ResponseContents(messages)) <= Cardinality(StartsOf(published))

\* C27, as claimed: every reasoning step publishes exactly one
\* full-response event before the next reasoning-start event, holding the
\* tokens of that step, and the buffer is empty when a step starts.
C27_OneFullResponsePerStep ==
    /\ StepsHaveStarts
    /\ \A k \in 1..Len(ResponseContents(messages)) :
          /\ Cardinality(FullResponsesOfStep(published, k)) = 1
          /\ \A i \in FullResponsesOfStep(published, k) :
                published[i].data = ResponseContents(messages)[k]
    /\ agentpc = "llm" => llm_token_buffer = <<>>

\* C27, amended: a reasoning step that streamed at least one token
\* publishes exactly one full-response event before the next
\* reasoning-start event, holding the tokens of that step in order; a
\* step that streamed none publishes none; a step that did not complete
\* publishes none; and the buffer is empty when a step starts.
C27_FullResponseIffTokens ==
    /\ StepsHaveStarts
    /\ \A k \in 1..Cardinality(StartsOf(published)) :
          LET fulls == FullResponsesOfStep(published, k)
              contents == ResponseContents(messages)
          IN  IF k <= Len(contents) /\ contents[k] # ""
              THEN /\ Cardinality(fulls) = 1
                   /\ \A i \in fulls : published[i].data = contents[k]
              ELSE fulls = {}
    /\ agentpc \in {"llm", "call_tool", "tools_running", "structuring"} =>
          llm_token_buffer = <<>>

\* C27 witness: a step that streamed two tokens and a step that streamed
\* none have both completed.
C27_StepWithTokensAndStepWithout ==
    /\ \E k \in 1..Len(ResponseContents(messages)) :
          Len(ResponseContents(messages)[k]) = 2
    /\ \E k \in 1..Len(ResponseContents(messages)) :
          ResponseContents(messages)[k] = ""
    /\ agentpc = "structuring"

C28_LoopChangesOnlyMessages ==
    [][/\ topic' = topic
       /\ sources' = sources
       /\ metadata' = metadata]_vars

\* C28 witness: a reasoning step, a tool dispatch step and a second
\* reasoning step have run and the three keys hold what they were
\* created with.
C28_KeysAsCreatedAfterLoop ==
    /\ Len(messages) >= 4
    /\ HasToolResult
    /\ agentpc \in {"structuring", "call_tool"}
    /\ topic = Topic
    /\ sources = <<>>
    /\ metadata.total_sources_analyzed = 0

\* C29: the cleanup of event_generator never ends with an exception
\* leaving the generator.
C29_CleanupNeverRaises == cpc # "raised"

====
